---- MODULE Spec2Model ----
(***************************************************************************)
(* The motion analysis engine of stepflow-ai (analyzer.py, models.py,      *)
(* main.py): MotionAnalyzer.analyze, calculate_overall_score and the       *)
(* /predict handler that calls them on the module-level analyzer.          *)
(*                                                                         *)
(* Numbers.  The program computes in binary floating point; the model      *)
(* computes in fixed point, every division rounding down:                  *)
(*   coordinates, displacements, confidences, scores   1.0   = Milli       *)
(*   overall score, percentages, avg_lag_ms            1.0   = Milli       *)
(*   timestamps, peak times, lags                      1 s   = Micro       *)
(*   velocities, accelerations                         1.0/s = Centi       *)
(*   variance of the accelerations                     1.0   = Centi^2     *)
(* An optional field (z, confidence, audio_bpm, timestamp of a feedback    *)
(* item) is None, the empty sequence, or Some(v), the sequence <<v>>.      *)
(***************************************************************************)
EXTENDS Integers, Sequences, FiniteSets, TLC

VARIABLES analyzer, calls

vars == <<analyzer, calls>>

Milli == 10^3
Micro == 10^6
Centi == 10^2

None == <<>>
Some(v) == <<v>>

(***************************************************************************)
(* The numbers of analyzer.py and config.py.                               *)
(***************************************************************************)
SCORING_THRESHOLD == 700     \* config.py: scoring_threshold = 0.7
DEFAULT_DT == 33000          \* dt = 0.033 (seconds)
PEAK_DT == 33000             \* peaks.append(i * 0.033)
THRESHOLD_PERCENTILE == 75   \* threshold_percentile: float = 75
ON_BEAT_WINDOW == 100000     \* lag < 0.1 (seconds)
LAG_NORM_MS == 200           \* avg_lag_ms / 200
SECONDS_PER_MINUTE == 60     \* 60.0 / audio_bpm
VARIANCE_NORM == 100         \* variance / 100.0
ENERGY_NORM == 10            \* avg_velocity / 10.0
ENERGY_DEFAULT == 500        \* return 0.5
FORM_DEFAULT == 800          \* return 0.8
SYNC_LOW == 700              \* sync_score < 0.7
SYNC_HIGH == 900             \* sync_score >= 0.9
SMOOTHNESS_LOW == 600        \* smoothness_score < 0.6
ENERGY_LOW == 500            \* energy_score < 0.5
ENERGY_HIGH == 900           \* energy_score > 0.9
FORM_LOW == 700              \* form_score < 0.7
ACCURACY_LOW == 700          \* accuracy_score < 0.7
W_TIMING == 25               \* 'timing': 0.25
W_SMOOTHNESS == 20           \* 'smoothness': 0.20
W_ACCURACY == 25             \* 'accuracy': 0.25
W_ENERGY == 15               \* 'energy': 0.15
W_FORM == 15                 \* 'form': 0.15
OVERALL_SCALE == 100         \* ) * 100.0
OVERALL_MAX == 100           \* np.clip(score, 0.0, 100.0)
MS_PER_SECOND == 1000        \* (lag_sum / max(total_peaks, 1)) * 1000

(***************************************************************************)
(* Arithmetic of Python and numpy the analyzer uses.                       *)
(***************************************************************************)
Abs(a) == IF a < 0 THEN -a ELSE a
Max(a, b) == IF a >= b THEN a ELSE b
Min(a, b) == IF a <= b THEN a ELSE b

\* np.clip(v, lo, hi)
Clip(v, lo, hi) == IF v < lo THEN lo ELSE IF v > hi THEN hi ELSE v

RECURSIVE SqrtIter(_, _)
SqrtIter(n, r) ==
    LET r2 == (r + n \div r) \div 2
    IN  IF r2 >= r THEN r ELSE SqrtIter(n, r2)

\* np.sqrt, rounded down to the fixed-point grid
Sqrt(n) == IF n = 0 THEN 0 ELSE SqrtIter(n, n)

RECURSIVE Sum(_)
Sum(s) == IF s = <<>> THEN 0 ELSE Head(s) + Sum(Tail(s))

\* np.mean of a non-empty sequence
Mean(s) == Sum(s) \div Len(s)

\* np.var: the mean of |x - mean(x)|^2, with the mean kept exact:
\* (x - S/n)^2 = (n*x - S)^2 / n^2
Var(s) ==
    LET n == Len(s)
        S == Sum(s)
    IN  Sum([i \in 1..n |-> (n * s[i] - S) * (n * s[i] - S)]) \div (n * n * n)

\* np.std
Std(s) == Sqrt(Var(s))

\* np.diff
Diff(s) == [i \in 1..(Len(s) - 1) |-> s[i + 1] - s[i]]

RECURSIVE Insert(_, _)
Insert(v, s) ==
    IF s = <<>> THEN <<v>>
    ELSE IF v <= Head(s) THEN <<v>> \o s
    ELSE <<Head(s)>> \o Insert(v, Tail(s))

RECURSIVE Sorted(_)
Sorted(s) == IF s = <<>> THEN <<>> ELSE Insert(Head(s), Sorted(Tail(s)))

\* np.percentile(s, q), linear interpolation between the two closest ranks,
\* times 100: the virtual index is q/100 * (n - 1)
Percentile100(s, q) ==
    LET n == Len(s)
        srt == Sorted(s)
        lo == (q * (n - 1)) \div 100
        frac == (q * (n - 1)) % 100
        hi == Min(lo + 1, n - 1)
    IN  100 * srt[lo + 1] + frac * (srt[hi + 1] - srt[lo + 1])

\* Python's round(num / den) for den > 0: to the nearest integer, a tie to the
\* even one
Round(num, den) ==
    LET q == num \div den
        r == num % den
    IN  IF 2 * r < den THEN q
        ELSE IF 2 * r > den THEN q + 1
        ELSE IF q % 2 = 0 THEN q ELSE q + 1

\* `v or 0` on an optional number
OrZero(opt) == IF opt = None THEN 0 ELSE opt[1]

(***************************************************************************)
(* Kinematics: _calculate_velocities, _calculate_accelerations.            *)
(***************************************************************************)
\* np.sqrt(dx**2 + dy**2 + dz**2) for one keypoint pair
Displacement(kp_curr, kp_prev) ==
    LET dx == kp_curr.x - kp_prev.x
        dy == kp_curr.y - kp_prev.y
        dz == OrZero(kp_curr.z) - OrZero(kp_prev.z)
    IN  Sqrt(dx * dx + dy * dy + dz * dz)

\* A coordinate of 1e200: a finite double, accepted by the validators, whose
\* square is beyond the largest double.  The one value of the model that is
\* not on the fixed-point grid; it only ever meets itself or a grid value.
Huge == 2^30

\* d = a - b; d**2 on Python floats raises OverflowError when the result is
\* out of range: 1e200 - 1e200 is 0.0, 1e200 minus a grid value is 1e200
PowOverflows(a, b) == a # b /\ (a = Huge \/ b = Huge)

\* whether _calculate_velocities raises OverflowError at dx**2 + dy**2 +
\* dz**2 for some keypoint pair of consecutive frames
VelocitiesOverflow(frames) ==
    \E i \in 2..Len(frames) :
        \E j \in 1..Min(Len(frames[i].keypoints), Len(frames[i - 1].keypoints)) :
            LET kp_curr == frames[i].keypoints[j]
                kp_prev == frames[i - 1].keypoints[j]
            IN  \/ PowOverflows(kp_curr.x, kp_prev.x)
                \/ PowOverflows(kp_curr.y, kp_prev.y)
                \/ PowOverflows(OrZero(kp_curr.z), OrZero(kp_prev.z))

\* mutant: every frame pair is taken to be 0.033 s apart
Velocity_fixed_dt(frames, i) ==
    LET curr == frames[i].keypoints
        prev == frames[i - 1].keypoints
        count == Cardinality({j \in 1..Len(curr) : j <= Len(prev)})
        displacement ==
            Sum([j \in 1..count |-> Displacement(curr[j], prev[j])])
    IN  ((displacement \div Max(count, 1)) * ((Centi * Micro) \div Milli))
        \div DEFAULT_DT

\* mutant: the displacement is averaged over the keypoints of the current
\* frame, paired or not
Velocity_count_curr(frames, i) ==
    LET dt0 == frames[i].timestamp - frames[i - 1].timestamp
        dt == IF dt0 <= 0 THEN DEFAULT_DT ELSE dt0
        curr == frames[i].keypoints
        prev == frames[i - 1].keypoints
        count == Cardinality({j \in 1..Len(curr) : j <= Len(prev)})
        displacement ==
            Sum([j \in 1..count |-> Displacement(curr[j], prev[j])])
    IN  ((displacement \div Max(Len(curr), 1)) * ((Centi * Micro) \div Milli))
        \div dt

\* the velocity between frames[i-1] and frames[i] (i >= 2, 1-based)
Velocity(frames, i) ==
    LET dt0 == frames[i].timestamp - frames[i - 1].timestamp
        dt == IF dt0 <= 0 THEN DEFAULT_DT ELSE dt0
        curr == frames[i].keypoints
        prev == frames[i - 1].keypoints
        paired == {j \in 1..Len(curr) : j <= Len(prev)}
        count == Cardinality(paired)
        displacement ==
            Sum([j \in 1..count |-> Displacement(curr[j], prev[j])])
        avg_displacement == displacement \div Max(count, 1)
    IN  (avg_displacement * ((Centi * Micro) \div Milli)) \div dt

\* mutant: fewer than 2 frames give no velocity at all
_calculate_velocities_empty(frames) ==
    IF Len(frames) < 2 THEN <<>>
    ELSE [i \in 1..(Len(frames) - 1) |-> Velocity(frames, i + 1)]

_calculate_velocities(frames) ==
    IF Len(frames) < 2 THEN <<0>>
    ELSE [i \in 1..(Len(frames) - 1) |-> Velocity(frames, i + 1)]

_calculate_accelerations(velocities) ==
    IF Len(velocities) < 2 THEN <<0>> ELSE Diff(velocities)

(***************************************************************************)
(* Peak detector: _detect_movement_peaks.  Peak times in Micro.            *)
(***************************************************************************)
\* mutant: a sample equal to its right neighbour still counts
IsPeak_plateau(velocities, i, threshold100) ==
    /\ 100 * velocities[i + 1] > threshold100
    /\ velocities[i + 1] > velocities[i]
    /\ velocities[i + 1] >= velocities[i + 2]

\* whether 0-based index i of velocities (1 <= i <= len - 2) is a peak
IsPeak(velocities, i, threshold100) ==
    /\ 100 * velocities[i + 1] > threshold100
    /\ velocities[i + 1] > velocities[i]
    /\ velocities[i + 1] > velocities[i + 2]

\* mutant: the peak is dated by the frame that ends the step, i + 1
RECURSIVE PeaksFrom_frame_index(_, _, _)
PeaksFrom_frame_index(velocities, i, threshold100) ==
    IF i > Len(velocities) - 2 THEN <<>>
    ELSE (IF IsPeak(velocities, i, threshold100)
          THEN <<(i + 1) * PEAK_DT>> ELSE <<>>)
         \o PeaksFrom_frame_index(velocities, i + 1, threshold100)

RECURSIVE PeaksFrom(_, _, _)
PeaksFrom(velocities, i, threshold100) ==
    IF i > Len(velocities) - 2 THEN <<>>
    ELSE (IF IsPeak(velocities, i, threshold100)
          THEN <<i * PEAK_DT>> ELSE <<>>)
         \o PeaksFrom(velocities, i + 1, threshold100)

_detect_movement_peaks(velocities) ==
    IF Len(velocities) < 3 THEN <<>>
    ELSE PeaksFrom(velocities, 1,
                   Percentile100(velocities, THRESHOLD_PERCENTILE))

(***************************************************************************)
(* Timing analyzer: _analyze_timing.                                       *)
(***************************************************************************)
\* beat_interval = 60.0 / audio_bpm is the exact fraction
\* SECONDS_PER_MINUTE * Micro / bpm, so peak_time / beat_interval is
\* peak_time * bpm / (SECONDS_PER_MINUTE * Micro)
\* mutant: int(peak_time / beat_interval), the beat before the peak
NearestBeatIndex_truncating(peak_time, bpm) ==
    (peak_time * bpm) \div (SECONDS_PER_MINUTE * Micro)

NearestBeatIndex(peak_time, bpm) ==
    Round(peak_time * bpm, SECONDS_PER_MINUTE * Micro)

\* lag = abs(peak_time - nearest_beat), nearest_beat = round(..) * beat_interval
Lag(peak_time, bpm) ==
    Abs(peak_time * bpm
        - NearestBeatIndex(peak_time, bpm) * (SECONDS_PER_MINUTE * Micro))
    \div bpm

\* the audio_bpm branch of _analyze_timing
TimingWithTempo(frames, bpm) ==
    LET velocities == _calculate_velocities(frames)
        peaks == _detect_movement_peaks(velocities)
        total_peaks == Len(peaks)
        lags == [k \in 1..total_peaks |-> Lag(peaks[k], bpm)]
        lag_sum == Sum(lags)
        on_beat_count ==
            Cardinality({k \in 1..total_peaks : lags[k] < ON_BEAT_WINDOW})
        \* (lag_sum / max(total_peaks, 1)) * 1000
        avg_lag_ms == ((lag_sum \div Max(total_peaks, 1)) * MS_PER_SECOND)
                      \div (Micro \div Milli)
        on_beat_percentage ==
            (on_beat_count * 100 * Milli) \div Max(total_peaks, 1)
        sync_score == Milli - Min(avg_lag_ms \div LAG_NORM_MS, Milli)
    IN  [avg_lag_ms |-> avg_lag_ms,
         sync_score |-> sync_score,
         on_beat_percentage |-> on_beat_percentage]

\* mutant: a missing tempo analysed against a default tempo of 120 bpm
_analyze_timing_default_tempo(motion_data) ==
    TimingWithTempo(motion_data.frames,
                    IF motion_data.audio_bpm # None
                       /\ motion_data.audio_bpm[1] # 0
                    THEN motion_data.audio_bpm[1] ELSE 120)

\* whether _analyze_timing raises: its audio_bpm branch computes the
\* velocities
TimingRaises(motion_data) ==
    /\ motion_data.audio_bpm # None /\ motion_data.audio_bpm[1] # 0
    /\ VelocitiesOverflow(motion_data.frames)

_analyze_timing(motion_data) ==
    IF motion_data.audio_bpm # None /\ motion_data.audio_bpm[1] # 0
    THEN TimingWithTempo(motion_data.frames, motion_data.audio_bpm[1])
    ELSE [avg_lag_ms |-> 0,
          sync_score |-> Milli,
          on_beat_percentage |-> 100 * Milli]

(***************************************************************************)
(* Movement analyzer: _analyze_movement and its four scores.               *)
(***************************************************************************)
_calculate_smoothness(accelerations) ==
    IF Len(accelerations) = 0 THEN Milli
    ELSE LET variance == Var(accelerations)
             \* 1.0 / (1.0 + variance / 100.0)
             smoothness ==
                 (Milli * VARIANCE_NORM * Centi * Centi)
                 \div (VARIANCE_NORM * Centi * Centi + variance)
         IN  Clip(smoothness, 0, Milli)

\* mutant: the energy takes the shape of the smoothness formula,
\* 1.0 / (1.0 + avg_velocity / 10.0)
_calculate_energy_inverse(velocities) ==
    IF Len(velocities) = 0 THEN ENERGY_DEFAULT
    ELSE Clip((Milli * ENERGY_NORM * Centi)
              \div (ENERGY_NORM * Centi + Mean(velocities)), 0, Milli)

\* mutant: the energy is not clipped
_calculate_energy_unclipped(velocities) ==
    IF Len(velocities) = 0 THEN ENERGY_DEFAULT
    ELSE (Mean(velocities) * Milli) \div (ENERGY_NORM * Centi)

_calculate_energy(velocities) ==
    IF Len(velocities) = 0 THEN ENERGY_DEFAULT
    ELSE LET avg_velocity == Mean(velocities)
             energy == (avg_velocity * Milli) \div (ENERGY_NORM * Centi)
         IN  Clip(energy, 0, Milli)

\* np.std of the keypoints' distances to their centroid, for one frame
FrameSpread(keypoints) ==
    LET n == Len(keypoints)
        center_x == Mean([j \in 1..n |-> keypoints[j].x])
        center_y == Mean([j \in 1..n |-> keypoints[j].y])
        distances ==
            [j \in 1..n |->
                Sqrt((keypoints[j].x - center_x) * (keypoints[j].x - center_x)
                     + (keypoints[j].y - center_y) * (keypoints[j].y - center_y))]
    IN  Std(distances)

\* _calculate_accuracy past its guard on the frame count
AccuracyOfFrames(frames) ==
    LET HasKeypoints(f) == Len(f.keypoints) # 0
        used == SelectSeq(frames, HasKeypoints)
        consistency_scores ==
            [i \in 1..Len(used) |-> FrameSpread(used[i].keypoints)]
    IN  IF consistency_scores = <<>> THEN Milli
        ELSE LET avg_std == Mean(consistency_scores)
                 accuracy == (Milli * Milli) \div (Milli + avg_std)
             IN  Clip(accuracy, 0, Milli)

\* mutant: no guard on the frame count
_calculate_accuracy_unguarded(frames) == AccuracyOfFrames(frames)

_calculate_accuracy(frames) ==
    IF Len(frames) < 2 THEN Milli ELSE AccuracyOfFrames(frames)

RECURSIVE Confidences(_)
\* [kp.confidence for kp in keypoints if kp.confidence is not None]
Confidences(keypoints) ==
    IF keypoints = <<>> THEN <<>>
    ELSE Head(keypoints).confidence \o Confidences(Tail(keypoints))

\* mutant: one mean over the confidences of all frames pooled
_calculate_form_pooled(frames) ==
    IF Len(frames) = 0 THEN Milli
    ELSE LET pooled == [i \in 1..Len(frames) |->
                           Sum(Confidences(frames[i].keypoints))]
             counts == [i \in 1..Len(frames) |->
                           Len(Confidences(frames[i].keypoints))]
         IN  IF Sum(counts) = 0 THEN FORM_DEFAULT
             ELSE Clip(Sum(pooled) \div Sum(counts), 0, Milli)

_calculate_form(frames) ==
    IF Len(frames) = 0 THEN Milli
    ELSE LET HasConfidence(f) ==
                 Len(f.keypoints) # 0 /\ Confidences(f.keypoints) # <<>>
             used == SelectSeq(frames, HasConfidence)
             form_scores ==
                 [i \in 1..Len(used) |-> Mean(Confidences(used[i].keypoints))]
         IN  IF form_scores = <<>> THEN FORM_DEFAULT
             ELSE Clip(Mean(form_scores), 0, Milli)

\* _analyze_movement past its call of _calculate_velocities
MovementOf(frames, velocities) ==
    LET accelerations == _calculate_accelerations(velocities)
    IN  [smoothness_score |-> _calculate_smoothness(accelerations),
         accuracy_score |-> _calculate_accuracy(frames),
         energy_score |-> _calculate_energy(velocities),
         form_score |-> _calculate_form(frames)]

\* whether _analyze_movement raises: it computes the velocities first
MovementRaises(motion_data) == VelocitiesOverflow(motion_data.frames)

_analyze_movement(motion_data) ==
    MovementOf(motion_data.frames, _calculate_velocities(motion_data.frames))

(***************************************************************************)
(* Feedback synthesizer: _generate_feedback.  A message is its fixed text  *)
(* and, for the low-sync item, on_beat_percentage formatted with :.1f (in  *)
(* tenths of a percent).                                                   *)
(***************************************************************************)
FeedbackItem(category, message, severity) ==
    [category |-> category, message |-> message,
     severity |-> severity, timestamp |-> None]

\* f"{on_beat_percentage:.1f}"
Format1f(pct) == Round(pct, Milli \div 10)

\* mutant: good timing earns no item
TimingFeedback_no_praise(timing_metrics) ==
    IF timing_metrics.sync_score < SYNC_LOW
    THEN <<FeedbackItem("timing",
                        <<"Your timing is off.",
                          Format1f(timing_metrics.on_beat_percentage)>>,
                        "warning")>>
    ELSE <<>>

TimingFeedback(timing_metrics) ==
    IF timing_metrics.sync_score < SYNC_LOW
    THEN <<FeedbackItem("timing",
                        <<"Your timing is off.",
                          Format1f(timing_metrics.on_beat_percentage)>>,
                        "warning")>>
    ELSE IF timing_metrics.sync_score >= SYNC_HIGH
    THEN <<FeedbackItem("timing", <<"Excellent timing!">>, "info")>>
    ELSE <<>>

SmoothnessFeedback(movement_metrics) ==
    IF movement_metrics.smoothness_score < SMOOTHNESS_LOW
    THEN <<FeedbackItem("form", <<"Your movements are a bit jerky.">>,
                        "warning")>>
    ELSE <<>>

EnergyFeedback(movement_metrics) ==
    IF movement_metrics.energy_score < ENERGY_LOW
    THEN <<FeedbackItem("energy", <<"Put more energy into your movements!">>,
                        "info")>>
    ELSE IF movement_metrics.energy_score > ENERGY_HIGH
    THEN <<FeedbackItem("energy", <<"Great energy!">>, "info")>>
    ELSE <<>>

\* mutant: a poor posture is escalated to the reserved severity
FormFeedback_critical(movement_metrics) ==
    IF movement_metrics.form_score < FORM_LOW
    THEN <<FeedbackItem("form",
                        <<"Pay attention to your posture and alignment.">>,
                        "critical")>>
    ELSE <<>>

FormFeedback(movement_metrics) ==
    IF movement_metrics.form_score < FORM_LOW
    THEN <<FeedbackItem("form",
                        <<"Pay attention to your posture and alignment.">>,
                        "warning")>>
    ELSE <<>>

AccuracyFeedback(movement_metrics) ==
    IF movement_metrics.accuracy_score < ACCURACY_LOW
    THEN <<FeedbackItem("accuracy", <<"Your movements are inconsistent.">>,
                        "warning")>>
    ELSE <<>>

OverallFeedback(feedback) ==
    IF feedback = <<>>
    THEN <<FeedbackItem("overall", <<"Outstanding performance!">>, "info")>>
    ELSE <<>>

\* mutant: the congratulation is appended whenever no warning was given
_generate_feedback_no_warning(timing_metrics, movement_metrics, motion_data) ==
    LET feedback == TimingFeedback(timing_metrics)
                    \o SmoothnessFeedback(movement_metrics)
                    \o EnergyFeedback(movement_metrics)
                    \o FormFeedback(movement_metrics)
                    \o AccuracyFeedback(movement_metrics)
        HasWarning == \E i \in 1..Len(feedback) :
                         feedback[i].severity = "warning"
    IN  feedback \o OverallFeedback(IF HasWarning THEN feedback ELSE <<>>)

\* mutant: the posture rule is evaluated before the energy rule
_generate_feedback_reordered(timing_metrics, movement_metrics, motion_data) ==
    LET feedback == TimingFeedback(timing_metrics)
                    \o SmoothnessFeedback(movement_metrics)
                    \o FormFeedback(movement_metrics)
                    \o EnergyFeedback(movement_metrics)
                    \o AccuracyFeedback(movement_metrics)
    IN  feedback \o OverallFeedback(feedback)

_generate_feedback(timing_metrics, movement_metrics, motion_data) ==
    LET feedback == TimingFeedback(timing_metrics)
                    \o SmoothnessFeedback(movement_metrics)
                    \o EnergyFeedback(movement_metrics)
                    \o FormFeedback(movement_metrics)
                    \o AccuracyFeedback(movement_metrics)
    IN  feedback \o OverallFeedback(feedback)

(***************************************************************************)
(* Score aggregator: calculate_overall_score.  The weights are hundredths. *)
(***************************************************************************)
\* mutant: the five scores weigh the same
calculate_overall_score_equal_weights(timing_metrics, movement_metrics) ==
    LET weighted == 20 * (timing_metrics.sync_score
                          + movement_metrics.smoothness_score
                          + movement_metrics.accuracy_score
                          + movement_metrics.energy_score
                          + movement_metrics.form_score)
    IN  Clip((weighted * OVERALL_SCALE) \div Centi, 0, OVERALL_MAX * Milli)

calculate_overall_score(timing_metrics, movement_metrics) ==
    LET weighted == W_TIMING * timing_metrics.sync_score
                    + W_SMOOTHNESS * movement_metrics.smoothness_score
                    + W_ACCURACY * movement_metrics.accuracy_score
                    + W_ENERGY * movement_metrics.energy_score
                    + W_FORM * movement_metrics.form_score
        score == (weighted * OVERALL_SCALE) \div Centi
    IN  Clip(score, 0, OVERALL_MAX * Milli)

\* analyze run alone on one input: what it returns
analyze(motion_data) ==
    LET timing_metrics == _analyze_timing(motion_data)
        movement_metrics == _analyze_movement(motion_data)
    IN  [timing_metrics |-> timing_metrics,
         movement_metrics |-> movement_metrics,
         feedback |-> _generate_feedback(timing_metrics, movement_metrics,
                                         motion_data)]

(***************************************************************************)
(* The inputs.  Sequences of up to MaxFrames frames draw every frame from  *)
(* Poses x Timestamps (one to three keypoints, with and without z and      *)
(* confidence, equal and decreasing timestamps included); longer ones, up  *)
(* to MaxLongFrames frames, follow one keypoint along the x axis at eight  *)
(* frames a second, which is what the peak detector needs.                 *)
(***************************************************************************)
MaxFrames == 2
MaxLongFrames == 7

KeyPoint(x, y, z, confidence) ==
    [x |-> x, y |-> y, z |-> z, confidence |-> confidence]

Frame(timestamp, keypoints) ==
    [timestamp |-> timestamp, keypoints |-> keypoints]

MotionData(frames, audio_bpm) ==
    [frames |-> frames, audio_bpm |-> audio_bpm, reference_motion |-> None]

PoseA == <<KeyPoint(0, 0, None, None)>>
PoseB == <<KeyPoint(1000, 0, None, None)>>
PoseC == <<KeyPoint(0, 0, Some(0), Some(1000)),
           KeyPoint(600, 800, Some(1000), Some(400))>>
PoseD == <<KeyPoint(0, 0, None, Some(600)),
           KeyPoint(0, 0, None, None),
           KeyPoint(3000, 4000, Some(0), None)>>
PoseE == <<KeyPoint(300, 400, Some(0), Some(1000)),
           KeyPoint(300, 0, None, None)>>

Poses == {PoseA, PoseB, PoseC, PoseD, PoseE}
Timestamps == {0, 100000}
Tempos == {None, Some(250), Some(600)}
LongXs == {0, 500, 1250}
LongStep == Micro \div 8

SeqsOf(S, lo, hi) == UNION {[1..n -> S] : n \in lo..hi}

ShortFrames ==
    SeqsOf({Frame(t, p) : t \in Timestamps, p \in Poses}, 1, MaxFrames)

LongFrames ==
    {[i \in 1..Len(xs) |->
        Frame((i - 1) * LongStep, <<KeyPoint(xs[i], 0, None, None)>>)] :
     xs \in SeqsOf(LongXs, MaxFrames + 1, MaxLongFrames)}

Inputs == {MotionData(f, b) : f \in ShortFrames \cup LongFrames, b \in Tempos}

(***************************************************************************)
(* The service.  analyzer is the module-level MotionAnalyzer of main.py;   *)
(* calls maps each request in flight to its position in predict/analyze    *)
(* and to what it has computed so far (None until computed).               *)
(***************************************************************************)
MotionAnalyzer(scoring_threshold) ==
    [scoring_threshold |-> scoring_threshold]

NewCall(motion_data) ==
    [motion_data |-> motion_data, pc |-> "timing",
     timing_metrics |-> None, movement_metrics |-> None,
     feedback |-> None, overall_score |-> None, status |-> None]

Init ==
    /\ analyzer = MotionAnalyzer(SCORING_THRESHOLD)
    /\ \E md \in Inputs : calls = [c \in {1} |-> NewCall(md)]

\* the field constraints of TimingMetrics (ge=0.0, le=1.0; ge=0.0, le=100.0)
ValidTimingMetrics(m) ==
    /\ m.sync_score >= 0 /\ m.sync_score <= Milli
    /\ m.on_beat_percentage >= 0 /\ m.on_beat_percentage <= 100 * Milli

\* the field constraints of MovementMetrics (each ge=0.0, le=1.0)
ValidMovementMetrics(m) ==
    /\ m.smoothness_score >= 0 /\ m.smoothness_score <= Milli
    /\ m.accuracy_score >= 0 /\ m.accuracy_score <= Milli
    /\ m.energy_score >= 0 /\ m.energy_score <= Milli
    /\ m.form_score >= 0 /\ m.form_score <= Milli

\* the field constraint of PredictionResult.overall_score (ge=0.0, le=100.0)
ValidPredictionResult(overall_score) ==
    overall_score >= 0 /\ overall_score <= 100 * Milli

\* a pydantic ValidationError, a ValueError, raised inside predict's try
\* block: except ValueError answers 400
RaiseValueError(c) ==
    calls' = [calls EXCEPT ![c].pc = "done", ![c].status = Some(400)]

\* any exception that is not a ValueError, raised inside predict's try block
\* (the HTTPException of the frames guard, an OverflowError of float
\* arithmetic): except Exception answers 500
RaiseException(c) ==
    calls' = [calls EXCEPT ![c].pc = "done", ![c].status = Some(500)]

\* timing_metrics = self._analyze_timing(motion_data)
AnalyzeTiming(c) ==
    /\ calls[c].pc = "timing"
    /\ LET m == _analyze_timing(calls[c].motion_data)
       IN  IF TimingRaises(calls[c].motion_data) THEN RaiseException(c)
           ELSE IF ValidTimingMetrics(m)
           THEN calls' = [calls EXCEPT ![c].timing_metrics = Some(m),
                                       ![c].pc = "movement"]
           ELSE RaiseValueError(c)
    /\ UNCHANGED analyzer

\* mutant: the velocities are computed once and kept on the analyzer
\* (self.velocities), which every later call reuses
AnalyzeMovement_cached(c) ==
    /\ calls[c].pc = "movement"
    /\ LET cached == "velocities" \in DOMAIN analyzer
           velocities ==
               IF cached THEN analyzer.velocities
               ELSE _calculate_velocities(calls[c].motion_data.frames)
           m == MovementOf(calls[c].motion_data.frames, velocities)
       IN  /\ IF MovementRaises(calls[c].motion_data) THEN RaiseException(c)
              ELSE IF ValidMovementMetrics(m)
              THEN calls' = [calls EXCEPT ![c].movement_metrics = Some(m),
                                          ![c].pc = "feedback"]
              ELSE RaiseValueError(c)
           /\ analyzer' = [scoring_threshold |-> analyzer.scoring_threshold,
                           velocities |-> velocities]

\* movement_metrics = self._analyze_movement(motion_data)
AnalyzeMovement(c) ==
    /\ calls[c].pc = "movement"
    /\ LET m == _analyze_movement(calls[c].motion_data)
       IN  IF MovementRaises(calls[c].motion_data) THEN RaiseException(c)
           ELSE IF ValidMovementMetrics(m)
           THEN calls' = [calls EXCEPT ![c].movement_metrics = Some(m),
                                       ![c].pc = "feedback"]
           ELSE RaiseValueError(c)
    /\ UNCHANGED analyzer

\* feedback = self._generate_feedback(timing_metrics, movement_metrics, ..)
GenerateFeedback(c) ==
    /\ calls[c].pc = "feedback"
    /\ calls' = [calls EXCEPT
                   ![c].feedback =
                       Some(_generate_feedback(calls[c].timing_metrics[1],
                                               calls[c].movement_metrics[1],
                                               calls[c].motion_data)),
                   ![c].pc = "score"]
    /\ UNCHANGED analyzer

\* overall_score = analyzer.calculate_overall_score(timing_metrics, ..)
CalculateOverallScore(c) ==
    /\ calls[c].pc = "score"
    /\ calls' = [calls EXCEPT
                   ![c].overall_score =
                       Some(calculate_overall_score(
                                calls[c].timing_metrics[1],
                                calls[c].movement_metrics[1])),
                   ![c].pc = "respond"]
    /\ UNCHANGED analyzer

\* return PredictionResult(...)
Respond(c) ==
    /\ calls[c].pc = "respond"
    /\ IF ValidPredictionResult(calls[c].overall_score[1])
       THEN calls' = [calls EXCEPT ![c].pc = "done", ![c].status = Some(200)]
       ELSE RaiseValueError(c)
    /\ UNCHANGED analyzer

Next ==
    \/ \E c \in DOMAIN calls : AnalyzeTiming(c)
    \/ \E c \in DOMAIN calls : AnalyzeMovement(c)
    \/ \E c \in DOMAIN calls : GenerateFeedback(c)
    \/ \E c \in DOMAIN calls : CalculateOverallScore(c)
    \/ \E c \in DOMAIN calls : Respond(c)

Spec == Init /\ [][Next]_vars

(***************************************************************************)
(* The two analyzers of analyze applied to every input, and nothing after  *)
(* them: what the kinematics extractor and the peak detector compute.      *)
(***************************************************************************)
NextAnalyzers ==
    \/ \E c \in DOMAIN calls : AnalyzeTiming(c)
    \/ \E c \in DOMAIN calls : AnalyzeMovement(c)

SpecAnalyzers == Init /\ [][NextAnalyzers]_vars

(***************************************************************************)
(* Requests in flight together on the one analyzer, their steps            *)
(* interleaved in every way, and the two analyzers of a call in either     *)
(* order: the movement analysis may come first, the timing analysis late.  *)
(***************************************************************************)
MaxCalls == 2

ConcFrames ==
    {<<Frame(0, PoseD)>>,
     <<Frame(0, PoseA), Frame(100000, PoseB)>>,
     <<Frame(100000, PoseC), Frame(0, PoseE)>>,
     [i \in 1..7 |->
        Frame((i - 1) * LongStep,
              <<KeyPoint(<<0, 0, 1250, 1250, 0, 1250, 1250>>[i], 0,
                         None, None)>>)]}

ConcInputs == {MotionData(f, b) : f \in ConcFrames, b \in {None, Some(250)}}

InitConc ==
    /\ analyzer = MotionAnalyzer(SCORING_THRESHOLD)
    /\ \E mds \in [1..MaxCalls -> ConcInputs] :
           calls = [c \in 1..MaxCalls |-> NewCall(mds[c])]

\* _analyze_movement run before _analyze_timing
AnalyzeMovementFirst(c) ==
    /\ calls[c].pc = "timing"
    /\ LET m == _analyze_movement(calls[c].motion_data)
       IN  IF MovementRaises(calls[c].motion_data) THEN RaiseException(c)
           ELSE IF ValidMovementMetrics(m)
           THEN calls' = [calls EXCEPT ![c].movement_metrics = Some(m),
                                       ![c].pc = "timing_late"]
           ELSE RaiseValueError(c)
    /\ UNCHANGED analyzer

\* _analyze_timing run after _analyze_movement
AnalyzeTimingLate(c) ==
    /\ calls[c].pc = "timing_late"
    /\ LET m == _analyze_timing(calls[c].motion_data)
       IN  IF TimingRaises(calls[c].motion_data) THEN RaiseException(c)
           ELSE IF ValidTimingMetrics(m)
           THEN calls' = [calls EXCEPT ![c].timing_metrics = Some(m),
                                       ![c].pc = "feedback"]
           ELSE RaiseValueError(c)
    /\ UNCHANGED analyzer

NextConc ==
    \/ \E c \in DOMAIN calls : AnalyzeTiming(c)
    \/ \E c \in DOMAIN calls : AnalyzeMovement(c)
    \/ \E c \in DOMAIN calls : AnalyzeMovementFirst(c)
    \/ \E c \in DOMAIN calls : AnalyzeTimingLate(c)
    \/ \E c \in DOMAIN calls : GenerateFeedback(c)
    \/ \E c \in DOMAIN calls : CalculateOverallScore(c)
    \/ \E c \in DOMAIN calls : Respond(c)

SpecConc == InitConc /\ [][NextConc]_vars

(***************************************************************************)
(* The feedback synthesizer and the score aggregator called on their own,  *)
(* on metric bundles on both sides of every threshold.                     *)
(***************************************************************************)
SyncValues == {0, 500, 699, 700, 899, 900, 1000}
SmoothnessValues == {0, 599, 600, 900, 1000}
EnergyValues == {0, 499, 500, 900, 901, 950, 1000}
FormValues == {0, 699, 700, 900, 1000}
AccuracyValues == {0, 699, 700, 900, 1000}

TimingBundles ==
    {[avg_lag_ms |-> (Milli - s) * LAG_NORM_MS, sync_score |-> s,
      on_beat_percentage |-> 50 * Milli] : s \in SyncValues}

MovementBundles ==
    {[smoothness_score |-> sm, accuracy_score |-> ac,
      energy_score |-> en, form_score |-> fo] :
     sm \in SmoothnessValues, ac \in AccuracyValues,
     en \in EnergyValues, fo \in FormValues}

InitMetrics ==
    /\ analyzer = MotionAnalyzer(SCORING_THRESHOLD)
    /\ \E t \in TimingBundles, m \in MovementBundles :
           calls = [c \in {1} |->
                      [NewCall(MotionData(<<Frame(0, PoseA)>>, None))
                         EXCEPT !.pc = "feedback",
                                !.timing_metrics = Some(t),
                                !.movement_metrics = Some(m)]]

NextMetrics ==
    \/ \E c \in DOMAIN calls : GenerateFeedback(c)
    \/ \E c \in DOMAIN calls : CalculateOverallScore(c)

SpecMetrics == InitMetrics /\ [][NextMetrics]_vars

(***************************************************************************)
(* The /predict endpoint from the arrival of a request.  A request that    *)
(* comes over HTTP carries a body the framework makes a MotionData of,     *)
(* running the validators of models.py, before it calls predict; a body    *)
(* they reject is answered 422 and predict is not called.  predict is also *)
(* a function of the module, and a caller in the process hands it a        *)
(* MotionData directly: one it constructed, or one whose validators did    *)
(* not run (MotionData.model_construct, an assignment to frames).          *)
(***************************************************************************)
\* KeyPoint.confidence: Optional, ge=0.0, le=1.0
ValidKeyPoint(kp) ==
    kp.confidence = None \/ (kp.confidence[1] >= 0 /\ kp.confidence[1] <= Milli)

\* Frame.validate_keypoints and the fields of the keypoints
ValidFrame(f) ==
    /\ Len(f.keypoints) # 0
    /\ \A j \in 1..Len(f.keypoints) : ValidKeyPoint(f.keypoints[j])

\* MotionData.validate_frames, audio_bpm gt=0, and the fields of the frames
ValidMotionData(body) ==
    /\ Len(body.frames) # 0
    /\ \A i \in 1..Len(body.frames) : ValidFrame(body.frames[i])
    /\ body.audio_bpm = None \/ body.audio_bpm[1] > 0

PoseNone == <<>>
PoseOverConfident == <<KeyPoint(0, 0, None, Some(1500))>>
PoseFar == <<KeyPoint(Huge, 0, None, None)>>

BodyPoses == {PoseA, PoseB, PoseC, PoseFar, PoseNone, PoseOverConfident}
BodyTempos == {None, Some(0), Some(250)}

\* request bodies of zero to MaxFrames frames, valid and invalid
Bodies ==
    {MotionData(f, b) :
        f \in SeqsOf({Frame(t, p) : t \in Timestamps, p \in BodyPoses},
                     0, MaxFrames),
        b \in BodyTempos}

\* what a caller in the process hands to predict
DirectArguments == {b \in Bodies : ValidMotionData(b) \/ b.frames = <<>>}

NewRequest(body, via) ==
    [motion_data |-> body, via |-> via,
     pc |-> IF via = "http" THEN "validate" ELSE "guard",
     timing_metrics |-> None, movement_metrics |-> None,
     feedback |-> None, overall_score |-> None, status |-> None]

InitPredict ==
    /\ analyzer = MotionAnalyzer(SCORING_THRESHOLD)
    /\ \/ \E body \in Bodies :
              calls = [c \in {1} |-> NewRequest(body, "http")]
       \/ \E body \in DirectArguments :
              calls = [c \in {1} |-> NewRequest(body, "direct")]

\* mutant: MotionData without its validate_frames validator
ValidateRequest_any_frames(c) ==
    /\ calls[c].pc = "validate"
    /\ LET body == calls[c].motion_data
       IN  IF /\ \A i \in 1..Len(body.frames) : ValidFrame(body.frames[i])
              /\ body.audio_bpm = None \/ body.audio_bpm[1] > 0
           THEN calls' = [calls EXCEPT ![c].pc = "guard"]
           ELSE calls' = [calls EXCEPT ![c].pc = "done", ![c].status = Some(422)]
    /\ UNCHANGED analyzer

\* async def predict(motion_data: MotionData): the body is validated into
\* the parameter; a validation error is answered 422 without calling predict
ValidateRequest(c) ==
    /\ calls[c].pc = "validate"
    /\ IF ValidMotionData(calls[c].motion_data)
       THEN calls' = [calls EXCEPT ![c].pc = "guard"]
       ELSE calls' = [calls EXCEPT ![c].pc = "done", ![c].status = Some(422)]
    /\ UNCHANGED analyzer

\* if not motion_data.frames: raise HTTPException(400), inside the try block
CheckFrames(c) ==
    /\ calls[c].pc = "guard"
    /\ IF Len(calls[c].motion_data.frames) = 0
       THEN RaiseException(c)
       ELSE calls' = [calls EXCEPT ![c].pc = "timing"]
    /\ UNCHANGED analyzer

NextPredict ==
    \/ \E c \in DOMAIN calls : ValidateRequest(c)
    \/ \E c \in DOMAIN calls : CheckFrames(c)
    \/ \E c \in DOMAIN calls : AnalyzeTiming(c)
    \/ \E c \in DOMAIN calls : AnalyzeMovement(c)
    \/ \E c \in DOMAIN calls : GenerateFeedback(c)
    \/ \E c \in DOMAIN calls : CalculateOverallScore(c)
    \/ \E c \in DOMAIN calls : Respond(c)

SpecPredict == InitPredict /\ [][NextPredict]_vars

(***************************************************************************)
(* What the claims read of a call.                                         *)
(***************************************************************************)
Calls == DOMAIN calls
Timing(c) == calls[c].timing_metrics[1]
Movement(c) == calls[c].movement_metrics[1]
Feedback(c) == calls[c].feedback[1]
Overall(c) == calls[c].overall_score[1]
Answered(c) == calls[c].pc = "done"
Succeeded(c) == calls[c].pc = "done" /\ calls[c].status = Some(200)
Within(v, lo, hi) == lo <= v /\ v <= hi

(***************************************************************************)
(* Claims checked under Spec: one request through predict.                 *)
(***************************************************************************)

\* C1: for every valid MotionData, analyze followed by
\* calculate_overall_score completes and yields sync, smoothness, accuracy,
\* energy and form scores in [0,1], on_beat_percentage in [0,100],
\* avg_lag_ms >= 0 and overall_score in [0,100].
C1_ScoresInRange ==
    \A c \in Calls :
        /\ Answered(c) => calls[c].status = Some(200)
        /\ calls[c].timing_metrics # None =>
               /\ Within(Timing(c).sync_score, 0, 1000)
               /\ Within(Timing(c).on_beat_percentage, 0, 100000)
               /\ Timing(c).avg_lag_ms >= 0
        /\ calls[c].movement_metrics # None =>
               /\ Within(Movement(c).smoothness_score, 0, 1000)
               /\ Within(Movement(c).accuracy_score, 0, 1000)
               /\ Within(Movement(c).energy_score, 0, 1000)
               /\ Within(Movement(c).form_score, 0, 1000)
        /\ calls[c].overall_score # None => Within(Overall(c), 0, 100000)

\* a request answered with every score strictly inside its range, after a
\* mean velocity above 10 was clipped for another
C1_Witness ==
    \E c \in Calls :
        /\ Succeeded(c)
        /\ Timing(c).sync_score > 0 /\ Timing(c).sync_score < 1000
        /\ Timing(c).avg_lag_ms > 0
        /\ Movement(c).smoothness_score < 1000
        /\ Movement(c).energy_score > 0 /\ Movement(c).energy_score < 1000
        /\ Overall(c) > 0 /\ Overall(c) < 100000

\* C4: when audio_bpm is absent, the timing metrics are avg_lag_ms = 0.0,
\* sync_score = 1.0 and on_beat_percentage = 100.0 for every frame sequence.
C4_NoTempoDefaults ==
    \A c \in Calls :
        (calls[c].motion_data.audio_bpm = None
         /\ calls[c].timing_metrics # None) =>
            /\ Timing(c).avg_lag_ms = 0
            /\ Timing(c).sync_score = 1000
            /\ Timing(c).on_beat_percentage = 100000

\* a request without tempo whose frames do hold an off-beat movement peak
C4_Witness ==
    \E c \in Calls :
        /\ Succeeded(c)
        /\ calls[c].motion_data.audio_bpm = None
        /\ TimingWithTempo(calls[c].motion_data.frames, 120).sync_score < 700

\* C5, stated on its own terms: the lag of a peak is its distance to the
\* nearest point of the beat grid {n * 60/bpm}
C5_Lag(p, bpm) ==
    LET n == CHOOSE n \in 0..(p * bpm) \div 60000000 + 1 :
                 \A m \in 0..(p * bpm) \div 60000000 + 1 :
                     Abs(p * bpm - n * 60000000) <= Abs(p * bpm - m * 60000000)
    IN  Abs(p * bpm - n * 60000000) \div bpm

\* C5: with a tempo, on_beat_percentage = 100 * #{p : lag(p) < 0.1} /
\* max(total_peaks, 1), avg_lag_ms = 1000 * sum(lag) / max(total_peaks, 1)
\* and sync_score = 1 - min(avg_lag_ms / 200, 1.0) over the detected peaks;
\* with zero peaks they are 0, 0 and 1.0.
C5_TimingFormula ==
    \A c \in Calls :
        (calls[c].motion_data.audio_bpm # None
         /\ calls[c].timing_metrics # None) =>
            LET bpm == calls[c].motion_data.audio_bpm[1]
                peaks == _detect_movement_peaks(
                             _calculate_velocities(calls[c].motion_data.frames))
                total == Len(peaks)
                lag == [k \in 1..total |-> C5_Lag(peaks[k], bpm)]
                on_beat == Cardinality({k \in 1..total : lag[k] < 100000})
                avg == Sum(lag) \div Max(total, 1)
            IN  /\ Timing(c).on_beat_percentage
                       = (100000 * on_beat) \div Max(total, 1)
                /\ Timing(c).avg_lag_ms = avg
                /\ Timing(c).sync_score = 1000 - Min(avg \div 200, 1000)
                /\ total = 0 =>
                       /\ Timing(c).on_beat_percentage = 0
                       /\ Timing(c).avg_lag_ms = 0
                       /\ Timing(c).sync_score = 1000

\* a request with a tempo and two peaks, one on the beat and one off it,
\* one of them nearer to the beat after it than to the beat before it
C5_Witness ==
    \E c \in Calls :
        /\ Succeeded(c)
        /\ calls[c].motion_data.audio_bpm # None
        /\ Timing(c).on_beat_percentage = 50000
        /\ \E p \in {PEAK_DT * i : i \in 1..MaxLongFrames} :
               LET bpm == calls[c].motion_data.audio_bpm[1]
                   peaks == _detect_movement_peaks(
                              _calculate_velocities(calls[c].motion_data.frames))
               IN  /\ \E k \in 1..Len(peaks) : peaks[k] = p
                   /\ NearestBeatIndex(p, bpm) > (p * bpm) \div 60000000

\* a request with a tempo and no peak at all
C5_WitnessNoPeaks ==
    \E c \in Calls :
        /\ Succeeded(c)
        /\ calls[c].motion_data.audio_bpm # None
        /\ Len(calls[c].motion_data.frames) > 3
        /\ Timing(c).on_beat_percentage = 0
        /\ Timing(c).sync_score = 1000

\* C6: a MotionData with exactly one frame yields smoothness_score = 1.0 and
\* accuracy_score = 1.0, with or without audio_bpm.
C6_SingleFrame ==
    \A c \in Calls :
        (Len(calls[c].motion_data.frames) = 1
         /\ calls[c].movement_metrics # None) =>
            /\ Movement(c).smoothness_score = 1000
            /\ Movement(c).accuracy_score = 1000

\* a one-frame request, with a tempo, whose keypoints are spread unevenly
\* around their centroid
C6_Witness ==
    \E c \in Calls :
        /\ Succeeded(c)
        /\ Len(calls[c].motion_data.frames) = 1
        /\ calls[c].motion_data.audio_bpm # None
        /\ FrameSpread(calls[c].motion_data.frames[1].keypoints) > 0

\* the input of C9: timestamps 0.0 and 0.1, one keypoint (0,0) -> (1,0)
\* without z and confidence, no tempo
C9_Input ==
    MotionData(<<Frame(0, <<KeyPoint(0, 0, None, None)>>),
                 Frame(100000, <<KeyPoint(1000, 0, None, None)>>)>>, None)

\* C9: on that input velocities = [10.0], accelerations = [0.0],
\* smoothness = 1.0, energy = 1.0, form = 0.8, accuracy = 1.0, the timing
\* metrics are the no-tempo defaults and overall_score = 97.0.
C9_Scenario ==
    \A c \in Calls :
        calls[c].motion_data = C9_Input =>
            /\ _calculate_velocities(C9_Input.frames) = <<1000>>
            /\ _calculate_accelerations(
                   _calculate_velocities(C9_Input.frames)) = <<0>>
            /\ calls[c].timing_metrics # None =>
                   Timing(c) = [avg_lag_ms |-> 0, sync_score |-> 1000,
                                on_beat_percentage |-> 100000]
            /\ calls[c].movement_metrics # None =>
                   Movement(c) = [smoothness_score |-> 1000,
                                  accuracy_score |-> 1000,
                                  energy_score |-> 1000,
                                  form_score |-> 800]
            /\ calls[c].overall_score # None => Overall(c) = 97000

\* the request of C9, answered
C9_Witness ==
    \E c \in Calls : Succeeded(c) /\ calls[c].motion_data = C9_Input

\* the confidences a frame carries, and their sum
C17_Carried(frame) ==
    {j \in 1..Len(frame.keypoints) : frame.keypoints[j].confidence # None}

RECURSIVE C17_SumOver(_, _)
C17_SumOver(frame, js) ==
    IF js = {} THEN 0
    ELSE LET j == CHOOSE j \in js : TRUE
         IN  frame.keypoints[j].confidence[1] + C17_SumOver(frame, js \ {j})

C17_Clipped(v) == IF v < 0 THEN 0 ELSE IF v > 1000 THEN 1000 ELSE v

\* C17 as stated: form_score equals the average of confidence taken over
\* all keypoints of all frames that carry a confidence value (each such
\* keypoint weighted equally, also when frames carry different numbers of
\* confidence-bearing keypoints), clipped to [0,1]; it equals 0.8 when no
\* keypoint in the sequence carries a confidence.
C17_PooledMean ==
    \A c \in Calls :
        calls[c].movement_metrics # None =>
            LET frames == calls[c].motion_data.frames
                count == Sum([i \in 1..Len(frames) |->
                                Cardinality(C17_Carried(frames[i]))])
                total == Sum([i \in 1..Len(frames) |->
                                C17_SumOver(frames[i], C17_Carried(frames[i]))])
            IN  Movement(c).form_score
                    = IF count = 0 THEN 800 ELSE C17_Clipped(total \div count)

\* C17 as amended: form_score equals the average, over the frames that
\* carry at least one confidence value, of the frame's mean confidence
\* (each such frame weighted equally, whatever its number of
\* confidence-bearing keypoints), clipped to [0,1]; it equals 0.8 when no
\* keypoint in the sequence carries a confidence.
C17_MeanOfFrameMeans ==
    \A c \in Calls :
        calls[c].movement_metrics # None =>
            LET frames == calls[c].motion_data.frames
                scored == {i \in 1..Len(frames) : C17_Carried(frames[i]) # {}}
                mean(i) == C17_SumOver(frames[i], C17_Carried(frames[i]))
                           \div Cardinality(C17_Carried(frames[i]))
                total == Sum([i \in 1..Len(frames) |->
                                IF i \in scored THEN mean(i) ELSE 0])
            IN  Movement(c).form_score
                    = IF scored = {} THEN 800
                      ELSE C17_Clipped(total \div Cardinality(scored))

\* a request analysed whose two frames carry different numbers of
\* confidence values, with different means
C17_Witness ==
    \E c \in Calls :
        LET frames == calls[c].motion_data.frames
        IN  /\ Succeeded(c)
            /\ Len(frames) = 2
            /\ Cardinality(C17_Carried(frames[1])) = 2
            /\ Cardinality(C17_Carried(frames[2])) = 1
            /\ C17_SumOver(frames[1], C17_Carried(frames[1]))
                   # 2 * C17_SumOver(frames[2], C17_Carried(frames[2]))

\* a request analysed none of whose keypoints carries a confidence
C17_WitnessFallback ==
    \E c \in Calls :
        /\ Succeeded(c)
        /\ Len(calls[c].motion_data.frames) = 2
        /\ \A i \in 1..2 : C17_Carried(calls[c].motion_data.frames[i]) = {}
        /\ Movement(c).form_score = 800

\* C18: whenever audio_bpm is absent, the first feedback item returned by
\* analyze is the timing/info 'Excellent timing' item and the 'overall'
\* fallback item is never emitted, for every frame sequence.
C18_NoTempoPraisesTiming ==
    \A c \in Calls :
        (calls[c].motion_data.audio_bpm = None /\ calls[c].feedback # None) =>
            /\ Len(Feedback(c)) >= 1
            /\ Feedback(c)[1].category = "timing"
            /\ Feedback(c)[1].severity = "info"
            /\ Feedback(c)[1].message = <<"Excellent timing!">>
            /\ \A i \in 1..Len(Feedback(c)) : Feedback(c)[i].category # "overall"

\* a request without tempo on which no rule but the timing one fires: its
\* feedback is the timing item alone
C18_Witness ==
    \E c \in Calls :
        /\ Succeeded(c)
        /\ calls[c].motion_data.audio_bpm = None
        /\ Len(Feedback(c)) = 1
        /\ Within(Movement(c).energy_score, 500, 900)

\* C19: the velocity sequence reaching _calculate_energy inside analyze is
\* never empty (its length is max(frame_count - 1, 1)), so the neutral
\* energy default 0.5 is never produced by analyze; for every single-frame
\* input energy_score is 0.0 and the feedback contains the energy/info
\* 'more energy' item.
C19_VelocitiesNeverEmpty ==
    \A c \in Calls :
        LET frames == calls[c].motion_data.frames
            velocities == _calculate_velocities(frames)
            more_energy == [category |-> "energy",
                            message |-> <<"Put more energy into your movements!">>,
                            severity |-> "info", timestamp |-> None]
        IN  /\ calls[c].movement_metrics # None =>
                   /\ velocities # <<>>
                   /\ Len(velocities)
                          = (IF Len(frames) - 1 > 1 THEN Len(frames) - 1 ELSE 1)
                   /\ Len(frames) = 1 => Movement(c).energy_score = 0
            /\ (calls[c].feedback # None /\ Len(frames) = 1) =>
                   \E i \in 1..Len(Feedback(c)) : Feedback(c)[i] = more_energy

\* a single-frame request answered, told to put in more energy
C19_Witness ==
    \E c \in Calls :
        /\ Succeeded(c)
        /\ Len(calls[c].motion_data.frames) = 1
        /\ Movement(c).energy_score = 0
        /\ \E i \in 1..Len(Feedback(c)) : Feedback(c)[i].category = "energy"

(***************************************************************************)
(* Claims checked under SpecAnalyzers: the energy, the velocities and the  *)
(* peaks of every input.                                                   *)
(***************************************************************************)

\* C8: the scale factors k > 1, as fractions <<numerator, denominator>>;
\* every coordinate of Poses and LongXs is even, so 3/2 scales exactly
C8_ScaleFactors == {<<3, 2>>, <<2, 1>>, <<3, 1>>}

\* the frames with every coordinate, and so every displacement between
\* frames, scaled by k; timestamps, confidences and missing z as they were
C8_Scaled(frames, k) ==
    LET scale(v) == (v * k[1]) \div k[2]
        kp(p) == [p EXCEPT !.x = scale(@), !.y = scale(@),
                           !.z = IF @ = None THEN None ELSE Some(scale(@[1]))]
    IN  [i \in 1..Len(frames) |->
            [frames[i] EXCEPT !.keypoints =
                [j \in 1..Len(frames[i].keypoints) |->
                    kp(frames[i].keypoints[j])]]]

\* C8: scaling every inter-frame keypoint displacement by a constant k > 1,
\* the timestamps kept, does not decrease energy_score.
C8_EnergyMonotone ==
    \A c \in Calls :
        calls[c].movement_metrics # None =>
            \A k \in C8_ScaleFactors :
                _calculate_energy(_calculate_velocities(
                    C8_Scaled(calls[c].motion_data.frames, k)))
                >= Movement(c).energy_score

\* an input of several keypoints a frame whose energy is inside (0,1) and
\* grows when the displacements double
C8_Witness ==
    \E c \in Calls :
        /\ calls[c].movement_metrics # None
        /\ Len(calls[c].motion_data.frames) > 1
        /\ Len(calls[c].motion_data.frames[1].keypoints) > 1
        /\ Movement(c).energy_score > 0 /\ Movement(c).energy_score < 1000
        /\ _calculate_energy(_calculate_velocities(
               C8_Scaled(calls[c].motion_data.frames, <<2, 1>>)))
           > Movement(c).energy_score

\* C14, stated on its own terms: the velocities of a frame sequence, with
\* default_dt (in Micro) substituted for a dt <= 0
C14_Velocities(frames, default_dt) ==
    LET n == Len(frames)
        z(kp) == IF kp.z = None THEN 0 ELSE kp.z[1]
        dist(a, b) == Sqrt((a.x - b.x) * (a.x - b.x) + (a.y - b.y) * (a.y - b.y)
                           + (z(a) - z(b)) * (z(a) - z(b)))
        both(i) == Min(Len(frames[i].keypoints), Len(frames[i + 1].keypoints))
        total(i) == Sum([j \in 1..both(i) |->
                           dist(frames[i + 1].keypoints[j],
                                frames[i].keypoints[j])])
        mean(i) == total(i) \div (IF both(i) = 0 THEN 1 ELSE both(i))
        dt(i) == IF frames[i + 1].timestamp - frames[i].timestamp <= 0
                 THEN default_dt
                 ELSE frames[i + 1].timestamp - frames[i].timestamp
    IN  IF n < 2 THEN <<0>>
        ELSE [i \in 1..(n - 1) |-> (mean(i) * 100000) \div dt(i)]

\* C14 as stated: for each consecutive frame pair _calculate_velocities uses
\* dt = timestamp[i] - timestamp[i-1], substitutes exactly 1/30 second when
\* dt <= 0, and returns the mean Euclidean displacement over the keypoint
\* indices present in both frames (missing z taken as 0, zero count taken
\* as 1) divided by dt; the result has length frame_count - 1, or is the
\* single element [0] for fewer than 2 frames.
C14_DefaultOneThirtieth ==
    \A c \in Calls :
        calls[c].movement_metrics # None =>
            _calculate_velocities(calls[c].motion_data.frames)
                = C14_Velocities(calls[c].motion_data.frames, 1000000 \div 30)

\* C14 as amended: the same, with 0.033 second substituted when dt <= 0.
C14_VelocityFormula ==
    \A c \in Calls :
        calls[c].movement_metrics # None =>
            LET frames == calls[c].motion_data.frames
                velocities == _calculate_velocities(frames)
            IN  /\ velocities = C14_Velocities(frames, 33000)
                /\ Len(frames) >= 2 => Len(velocities) = Len(frames) - 1
                /\ Len(frames) < 2 => velocities = <<0>>

\* an input analysed whose second frame is not later than its first, the
\* two frames holding different numbers of keypoints, with z present on
\* one side only of a pair that moved
C14_Witness ==
    \E c \in Calls :
        LET frames == calls[c].motion_data.frames
        IN  /\ calls[c].movement_metrics # None
            /\ Len(frames) = 2
            /\ frames[2].timestamp <= frames[1].timestamp
            /\ Len(frames[1].keypoints) # Len(frames[2].keypoints)
            /\ \E j \in 1..Min(Len(frames[1].keypoints), Len(frames[2].keypoints)) :
                   /\ frames[1].keypoints[j].z # None
                   /\ frames[2].keypoints[j].z = None
                   /\ Displacement(frames[2].keypoints[j],
                                   frames[1].keypoints[j]) > 0

\* C15, stated on its own terms.  The k-th smallest (k from 0) of the
\* samples v, and four times their 75th percentile: the value at rank
\* 3(n-1)/4 of the sorted samples, interpolated linearly between the two
\* ranks around it
C15_Smallest(v, k) ==
    CHOOSE x \in {v[j] : j \in 1..Len(v)} :
        /\ Cardinality({j \in 1..Len(v) : v[j] < x}) <= k
        /\ Cardinality({j \in 1..Len(v) : v[j] <= x}) > k

C15_FourTimesP75(v) ==
    LET rank == (3 * (Len(v) - 1)) \div 4
        part == (3 * (Len(v) - 1)) % 4
        next == IF rank + 1 < Len(v) THEN rank + 1 ELSE rank
    IN  4 * C15_Smallest(v, rank)
        + part * (C15_Smallest(v, next) - C15_Smallest(v, rank))

\* the indices (from 0) that the claim calls peaks
C15_PeakIndices(v) ==
    LET threshold4 == C15_FourTimesP75(v)
    IN  IF Len(v) < 3 THEN {}
        ELSE {i \in 1..(Len(v) - 2) :
                /\ 4 * v[i + 1] > threshold4
                /\ v[i + 1] > v[i]
                /\ v[i + 1] > v[i + 2]}

\* the peaks the timing analyzer of a call saw
C15_Peaks(c) ==
    _detect_movement_peaks(_calculate_velocities(calls[c].motion_data.frames))

\* C15: _detect_movement_peaks returns an empty list for fewer than 3
\* velocity samples; otherwise index i (1 <= i <= len-2) is reported as a
\* peak if and only if velocities[i] exceeds the 75th-percentile value of
\* the whole sequence and is strictly greater than both velocities[i-1] and
\* velocities[i+1] (equal neighbours never qualify), and peaks are reported
\* in increasing index order.
C15_PeaksAreStrictMaxima ==
    \A c \in Calls :
        (calls[c].motion_data.audio_bpm # None
         /\ calls[c].timing_metrics # None) =>
            LET v == _calculate_velocities(calls[c].motion_data.frames)
                peaks == C15_Peaks(c)
                reported == {peaks[k] \div PEAK_DT : k \in 1..Len(peaks)}
                indices == C15_PeakIndices(v)
            IN  /\ Len(v) < 3 => peaks = <<>>
                /\ reported = indices
                /\ Len(peaks) = Cardinality(indices)
                /\ \A k \in 1..(Len(peaks) - 1) : peaks[k] < peaks[k + 1]

\* an input with a tempo whose velocities hold two peaks of different
\* height, both reported
C15_Witness ==
    \E c \in Calls :
        /\ calls[c].timing_metrics # None
        /\ calls[c].motion_data.audio_bpm # None
        /\ Len(C15_Peaks(c)) = 2
        /\ LET v == _calculate_velocities(calls[c].motion_data.frames)
               i == C15_Peaks(c)[1] \div PEAK_DT
               j == C15_Peaks(c)[2] \div PEAK_DT
           IN  v[i + 1] # v[j + 1]

\* an input with a tempo whose two largest velocities are equal neighbours
\* above the threshold: a plateau, and no peak
C15_WitnessPlateau ==
    \E c \in Calls :
        /\ calls[c].timing_metrics # None
        /\ calls[c].motion_data.audio_bpm # None
        /\ C15_Peaks(c) = <<>>
        /\ LET v == _calculate_velocities(calls[c].motion_data.frames)
           IN  \E i \in 2..(Len(v) - 2) :
                   /\ 4 * v[i] > C15_FourTimesP75(v)
                   /\ v[i] > v[i - 1]
                   /\ v[i] = v[i + 1]
                   /\ v[i + 1] > v[i + 2]

\* an input with a tempo one of whose strict local maxima is a peak and
\* another, not above the threshold, is not
C15_WitnessBelowThreshold ==
    \E c \in Calls :
        /\ calls[c].timing_metrics # None
        /\ calls[c].motion_data.audio_bpm # None
        /\ Len(C15_Peaks(c)) = 1
        /\ LET v == _calculate_velocities(calls[c].motion_data.frames)
           IN  \E i \in 2..(Len(v) - 1) :
                   /\ v[i] > v[i - 1] /\ v[i] > v[i + 1]
                   /\ i - 1 # C15_Peaks(c)[1] \div PEAK_DT

\* the k-th (k from 1) of a set of peak indices, in increasing order
C16_PeakIndex(indices, k) ==
    CHOOSE i \in indices : Cardinality({j \in indices : j < i}) = k - 1

\* C16 as stated: the timestamp reported for a peak at velocity index i is
\* exactly i * (1/30) seconds, independent of the frames' actual timestamps.
C16_ThirtiethOfASecond ==
    \A c \in Calls :
        (calls[c].motion_data.audio_bpm # None
         /\ calls[c].timing_metrics # None) =>
            LET peaks == C15_Peaks(c)
                indices == C15_PeakIndices(
                    _calculate_velocities(calls[c].motion_data.frames))
            IN  /\ Len(peaks) = Cardinality(indices)
                /\ \A k \in 1..Len(peaks) :
                       peaks[k] = (C16_PeakIndex(indices, k) * 1000000) \div 30

\* C16 as amended: the timestamp reported for a peak at velocity index i is
\* i * 0.033 seconds, independent of the frames' actual timestamps.
C16_PeakTime ==
    \A c \in Calls :
        (calls[c].motion_data.audio_bpm # None
         /\ calls[c].timing_metrics # None) =>
            LET peaks == C15_Peaks(c)
                indices == C15_PeakIndices(
                    _calculate_velocities(calls[c].motion_data.frames))
            IN  /\ Len(peaks) = Cardinality(indices)
                /\ \A k \in 1..Len(peaks) :
                       peaks[k] = C16_PeakIndex(indices, k) * 33000

\* an input with a tempo and a peak at velocity index 3, reported at 0.099 s
\* while the frames around it were taken at 0.375 s and 0.5 s
C16_Witness ==
    \E c \in Calls :
        /\ calls[c].timing_metrics # None
        /\ calls[c].motion_data.audio_bpm # None
        /\ \E k \in 1..Len(C15_Peaks(c)) : C15_Peaks(c)[k] = 99000
        /\ calls[c].motion_data.frames[4].timestamp = 375000
        /\ calls[c].motion_data.frames[5].timestamp = 500000

(***************************************************************************)
(* Claims checked under SpecMetrics: the synthesizer and the aggregator on *)
(* every metric bundle.                                                    *)
(***************************************************************************)

\* the rule table of the feedback synthesizer, as the claims state it
RuleTable(t, m) ==
    <<[holds |-> t.sync_score < 700, category |-> "timing",
       severity |-> "warning"],
      [holds |-> t.sync_score >= 900, category |-> "timing",
       severity |-> "info"],
      [holds |-> m.smoothness_score < 600, category |-> "form",
       severity |-> "warning"],
      [holds |-> m.energy_score < 500, category |-> "energy",
       severity |-> "info"],
      [holds |-> m.energy_score > 900, category |-> "energy",
       severity |-> "info"],
      [holds |-> m.form_score < 700, category |-> "form",
       severity |-> "warning"],
      [holds |-> m.accuracy_score < 700, category |-> "accuracy",
       severity |-> "warning"]>>

RuleHolds(row) == row.holds
IsFallback(item) == item.category = "overall" /\ item.severity = "info"
NotFallback(item) == ~IsFallback(item)
Label(items) ==
    [i \in 1..Len(items) |-> <<items[i].category, items[i].severity>>]

\* C2: _generate_feedback returns at least one item; the fallback item
\* (overall/info) is in the list if and only if none of the seven rules
\* fired, and then it is the only item.
C2_FallbackIffNoRule ==
    \A c \in Calls :
        calls[c].feedback # None =>
            LET fired == SelectSeq(RuleTable(Timing(c), Movement(c)), RuleHolds)
                fallbacks == SelectSeq(Feedback(c), IsFallback)
            IN  /\ Len(Feedback(c)) >= 1
                /\ fallbacks # <<>> <=> fired = <<>>
                /\ fallbacks # <<>> => Len(Feedback(c)) = 1

\* a bundle in the silent bands of every rule, answered with the fallback
C2_Witness ==
    \E c \in Calls :
        /\ calls[c].feedback # None
        /\ Timing(c).sync_score = 899
        /\ Movement(c).energy_score = 900
        /\ Label(Feedback(c)) = <<<<"overall", "info">>>>

\* a bundle whose only item is informational
C2_WitnessInfoOnly ==
    \E c \in Calls :
        /\ calls[c].feedback # None
        /\ Label(Feedback(c)) = <<<<"timing", "info">>>>

\* C3: the non-fallback items are exactly the rows of the rule table whose
\* condition holds, each once, in the order timing, form(smoothness),
\* energy, form(posture), accuracy; sync=0.5, smoothness=0.9, energy=0.95,
\* form=0.9, accuracy=0.9 yields exactly [timing/warning, energy/info].
C3_RuleTableInOrder ==
    \A c \in Calls :
        calls[c].feedback # None =>
            /\ Label(SelectSeq(Feedback(c), NotFallback))
                   = Label(SelectSeq(RuleTable(Timing(c), Movement(c)),
                                     RuleHolds))
            /\ (/\ Timing(c).sync_score = 500
                /\ Movement(c) = [smoothness_score |-> 900,
                                  accuracy_score |-> 900,
                                  energy_score |-> 950,
                                  form_score |-> 900]) =>
                   Label(Feedback(c)) = <<<<"timing", "warning">>,
                                          <<"energy", "info">>>>

\* the bundle of the claim's example, with its feedback computed
C3_Witness ==
    \E c \in Calls :
        /\ calls[c].feedback # None
        /\ Timing(c).sync_score = 500
        /\ Movement(c) = [smoothness_score |-> 900, accuracy_score |-> 900,
                          energy_score |-> 950, form_score |-> 900]

\* a bundle on which five rules fire, both form rules among them
C3_WitnessAllRules ==
    \E c \in Calls :
        /\ calls[c].feedback # None
        /\ Label(Feedback(c)) = <<<<"timing", "warning">>, <<"form", "warning">>,
                                  <<"energy", "info">>, <<"form", "warning">>,
                                  <<"accuracy", "warning">>>>

\* C7: calculate_overall_score returns clip(100*(0.25*sync + 0.20*smoothness
\* + 0.25*accuracy + 0.15*energy + 0.15*form), 0, 100), the weights summing
\* to 1: all five scores 1.0 give exactly 100.0, all five 0.0 exactly 0.0.
C7_WeightedScore ==
    \A c \in Calls :
        calls[c].overall_score # None =>
            LET t == Timing(c)
                m == Movement(c)
                sum == 25 * t.sync_score + 20 * m.smoothness_score
                       + 25 * m.accuracy_score + 15 * m.energy_score
                       + 15 * m.form_score
                all(v) == /\ t.sync_score = v /\ m.smoothness_score = v
                          /\ m.accuracy_score = v /\ m.energy_score = v
                          /\ m.form_score = v
            IN  /\ Overall(c) = Clip(sum, 0, 100000)
                /\ W_TIMING + W_SMOOTHNESS + W_ACCURACY + W_ENERGY + W_FORM = 100
                /\ all(1000) => Overall(c) = 100000
                /\ all(0) => Overall(c) = 0

\* the all-ones bundle, scored
C7_Witness ==
    \E c \in Calls :
        /\ calls[c].overall_score # None
        /\ Timing(c).sync_score = 1000
        /\ Movement(c) = [smoothness_score |-> 1000, accuracy_score |-> 1000,
                          energy_score |-> 1000, form_score |-> 1000]

\* the all-zeros bundle, scored
C7_WitnessZeros ==
    \E c \in Calls :
        /\ calls[c].overall_score # None
        /\ Timing(c).sync_score = 0
        /\ Movement(c) = [smoothness_score |-> 0, accuracy_score |-> 0,
                          energy_score |-> 0, form_score |-> 0]

\* C13: every FeedbackItem the engine returns has severity 'info' or
\* 'warning' (never 'critical'), a category in {timing, form, energy,
\* accuracy, overall}, and an unset timestamp.
C13_FeedbackItemsWellFormed ==
    \A c \in Calls :
        calls[c].feedback # None =>
            \A i \in 1..Len(Feedback(c)) :
                /\ Feedback(c)[i].severity \in {"info", "warning"}
                /\ Feedback(c)[i].severity # "critical"
                /\ Feedback(c)[i].category
                       \in {"timing", "form", "energy", "accuracy", "overall"}
                /\ Feedback(c)[i].timestamp = None

\* a feedback list with items of the four rule categories and of both
\* severities, the posture warning among them
C13_Witness ==
    \E c \in Calls :
        /\ calls[c].feedback # None
        /\ Movement(c).form_score < 700
        /\ {Feedback(c)[i].category : i \in 1..Len(Feedback(c))}
               = {"timing", "form", "energy", "accuracy"}
        /\ {Feedback(c)[i].severity : i \in 1..Len(Feedback(c))}
               = {"info", "warning"}

(***************************************************************************)
(* Claims checked under SpecConc: requests interleaved on one analyzer.    *)
(***************************************************************************)

\* what a call has computed so far is what analyze computes for its input
\* when it runs alone, and the analyzer is as it was constructed
C10_SameAsAlone ==
    /\ analyzer = MotionAnalyzer(SCORING_THRESHOLD)
    /\ \A c \in Calls :
        LET alone == analyze(calls[c].motion_data)
        IN  /\ calls[c].timing_metrics # None =>
                   Timing(c) = alone.timing_metrics
            /\ calls[c].movement_metrics # None =>
                   Movement(c) = alone.movement_metrics
            /\ calls[c].feedback # None => Feedback(c) = alone.feedback
            /\ calls[c].overall_score # None =>
                   Overall(c) = calculate_overall_score(alone.timing_metrics,
                                                        alone.movement_metrics)
            /\ Answered(c) => /\ calls[c].status = Some(200)
                              /\ calls[c].feedback # None

\* no step modifies the MotionData of any call
C10_InputKept ==
    \A c \in Calls : calls'[c].motion_data = calls[c].motion_data

\* C10: under every interleaving of the calls served by the one analyzer,
\* and either order of the timing and movement analyzers within a call,
\* each call returns the timing metrics, movement metrics and feedback it
\* returns when it runs alone, and neither the analyzer nor any input
\* MotionData is modified.
C10_Deterministic == [](C10_SameAsAlone) /\ [][C10_InputKept]_vars

\* two requests with different inputs and different results, both answered
C10_Witness ==
    \E c, d \in Calls :
        /\ c # d
        /\ Succeeded(c) /\ Succeeded(d)
        /\ Movement(c) # Movement(d)
        /\ Timing(c) # Timing(d)
        /\ Feedback(c) # Feedback(d)

(***************************************************************************)
(* Claims checked under SpecPredict: the endpoint from the arrival of a    *)
(* request.                                                                *)
(***************************************************************************)

\* the steps of analyze and the steps of predict after it
InAnalyze(c) == calls[c].pc \in {"timing", "movement", "feedback"}
InHandler(c) == calls[c].pc \in {"guard", "timing", "movement", "feedback", "score", "respond"}

\* no call is inside analyze with an empty frame sequence, and a POST with
\* an empty frames list is never inside the handler
C11_NeverAnalyzed ==
    \A c \in Calls :
        Len(calls[c].motion_data.frames) = 0 =>
            /\ ~InAnalyze(c)
            /\ calls[c].timing_metrics = None
            /\ calls[c].movement_metrics = None
            /\ calls[c].feedback = None
            /\ calls[c].via = "http" => ~InHandler(c)
            /\ (calls[c].via = "http" /\ Answered(c)) =>
                   calls[c].status = Some(422)

\* the step a POST with an empty frames list takes is its rejection
C11_RejectedAtOnce ==
    \A c \in Calls :
        (/\ calls[c].via = "http"
         /\ Len(calls[c].motion_data.frames) = 0
         /\ calls'[c] # calls[c]) =>
            /\ calls[c].pc = "validate"
            /\ calls'[c].pc = "done"
            /\ calls'[c].status = Some(422)

\* C11: a POST /predict request whose frames list is empty is rejected with
\* a 422 validation error before the handler body runs, so
\* MotionAnalyzer.analyze is never invoked with an empty frame sequence.
C11_EmptyFramesRejected == [](C11_NeverAnalyzed) /\ [][C11_RejectedAtOnce]_vars

\* a POST with an empty frames list, answered 422
C11_Witness ==
    \E c \in Calls :
        /\ calls[c].via = "http"
        /\ Len(calls[c].motion_data.frames) = 0
        /\ Answered(c)
        /\ calls[c].status = Some(422)

\* C12: for every structurally valid input (a single frame, keypoints
\* lacking z and/or confidence, absent audio_bpm, frames with differing
\* keypoint counts, non-increasing or duplicate timestamps included) analyze
\* and calculate_overall_score complete and return a well-formed result; no
\* error outcome is reachable and /predict answers 200.
C12_AlwaysAnswers200 ==
    \A c \in Calls :
        (/\ calls[c].via = "http"
         /\ ValidMotionData(calls[c].motion_data)
         /\ Answered(c)) =>
            /\ calls[c].status = Some(200)
            /\ calls[c].timing_metrics # None
            /\ calls[c].movement_metrics # None
            /\ calls[c].feedback # None
            /\ calls[c].overall_score # None

====
